---- MODULE Spec2Model ----
(***************************************************************************)
(* Model of pytest_sequence_reporter/plugin.py: the pytest hooks that      *)
(* buffer per-test phase reports in test_reports and POST test_started /   *)
(* test_finished messages to the sequencer.                                *)
(***************************************************************************)
EXTENDS Integers, Sequences, FiniteSets, TLC

\* ------------------------------------------------------------------ bounds
\* Number of runtest/session hook calls explored in one run.
MaxCalls == 3
\* Phase durations range over 1..MaxDuration (whole time units).
MaxDuration == 1

\* ------------------------------------------------------------ input domains
Phases == {"setup", "call", "teardown"}

NodeIds == {"t.py::a", "t.py::b"}

\* "rerun" stands for any result that is none of passed/failed/skipped.
AllOutcomes == {"passed", "failed", "skipped", "rerun"}

\* The optional attribute report.wasxfail: <<>> when the attribute is not
\* set, <<s>> when it is set to the reason string s.
NoWasxfail == <<>>
AllWasxfail == {NoWasxfail, <<"">>, <<"reason">>}

Durations == 1 .. MaxDuration

\* One user property (annotation); json tells whether its value is something
\* json.dumps can encode.
Annotation(name, json) == [name |-> name, json |-> json]
AllProperties ==
    {<<>>, <<Annotation("k1", TRUE), Annotation("k2", TRUE)>>, <<Annotation("obj", FALSE)>>}

ReportsOf(ids, whens, outcomes, xfails, durs, props) ==
    [nodeid : ids, when : whens, outcome : outcomes, wasxfail : xfails,
     duration : durs, user_properties : props]

\* --------------------------------------------------------------- variables
VARIABLES
    session,                      \* "loaded" | "options_added" | "configured" | "running" | "exited"
    sequencer_reporting_enabled,  \* plugin.py global
    test_reports,                 \* plugin.py global: nodeid -> (when -> report)
    sent,                         \* delivery attempts, in order: [message, result]
    hooks,                        \* history of the hook calls made by the runner
    config,                       \* option values given on the command line
    custom_options,               \* plugin.py global
    parser_options,               \* options registered with pytest's parser
    stdout,                       \* option lists printed by pytest_sessionstart
    returncode,                   \* <<>> or <<code>> once pytest.exit was called
    in_flight                     \* <<>> or <<[hook, message]>>: the POST a hook is blocked in

\* What the start-up hooks set and the runtest hooks leave alone.
startup == <<config, custom_options, parser_options, stdout, returncode>>

vars == <<session, sequencer_reporting_enabled, test_reports, sent, hooks, config,
          custom_options, parser_options, stdout, returncode, in_flight>>

\* ------------------------------------------------------- dictionary helpers
EmptyDict == <<>>

SetItem(d, k, v) == [x \in (DOMAIN d) \cup {k} |-> IF x = k THEN v ELSE d[x]]

DelItem(d, k) == [x \in (DOMAIN d) \ {k} |-> d[x]]

\* ------------------------------------------------------ outcome reconciler
\* getattr(report, 'wasxfail', False) used as a condition: the attribute is
\* present and its value is a non-empty string.
GetattrWasxfail(report) ==
    /\ report.wasxfail # NoWasxfail
    /\ report.wasxfail[1] # ""

\* (rep and rep.outcome == 'failed' and not getattr(rep, 'wasxfail', False))
\* for rep = reports.get(when)
FailedNotXfail(reports, when) ==
    /\ when \in DOMAIN reports
    /\ reports[when].outcome = "failed"
    /\ ~GetattrWasxfail(reports[when])

\* Variant of CallOutcome without the final else branch: outcome stays None.
CallOutcome_noElse(call_report) ==
    IF GetattrWasxfail(call_report)
    THEN IF call_report.outcome = "passed" THEN "xpassed" ELSE "xfailed"
    ELSE IF call_report.outcome \in {"passed", "failed", "skipped"}
         THEN call_report.outcome
         ELSE "None"

CallOutcome(call_report) ==
    IF GetattrWasxfail(call_report)
    THEN IF call_report.outcome = "passed" THEN "xpassed" ELSE "xfailed"
    ELSE IF call_report.outcome = "passed" THEN "passed"
         ELSE IF call_report.outcome = "failed" THEN "failed"
         ELSE IF call_report.outcome = "skipped" THEN "skipped"
         ELSE call_report.outcome

NoCallOutcome(reports) ==
    IF "setup" \in DOMAIN reports /\ reports["setup"].outcome = "skipped"
    THEN "skipped"
    ELSE "error"

\* Variant of Outcome that looks at the call report before the setup and
\* teardown failures.
Outcome_callFirst(reports) ==
    IF "call" \in DOMAIN reports
    THEN CallOutcome(reports["call"])
    ELSE IF FailedNotXfail(reports, "setup") \/ FailedNotXfail(reports, "teardown")
         THEN "error"
         ELSE NoCallOutcome(reports)

Outcome(reports) ==
    IF FailedNotXfail(reports, "setup") \/ FailedNotXfail(reports, "teardown")
    THEN "error"
    ELSE IF "call" \in DOMAIN reports
         THEN CallOutcome(reports["call"])
         ELSE NoCallOutcome(reports)

RECURSIVE SumOver(_, _)
SumOver(reports, whens) ==
    IF whens = {} THEN 0
    ELSE LET w == CHOOSE x \in whens : TRUE
         IN reports[w].duration + SumOver(reports, whens \ {w})

\* Variant of TotalDuration that leaves the teardown phase out of the sum.
TotalDuration_skipsTeardown(reports) == SumOver(reports, (DOMAIN reports) \ {"teardown"})

\* sum(rep.duration for rep in reports.values() if rep)
TotalDuration(reports) == SumOver(reports, DOMAIN reports)

PhaseProperties(reports, phase) ==
    IF phase \in DOMAIN reports THEN reports[phase].user_properties ELSE <<>>

\* Variant of UserProperties that goes through the phases in the order they
\* run.
UserProperties_runOrder(reports) ==
    PhaseProperties(reports, "setup") \o PhaseProperties(reports, "call")
        \o PhaseProperties(reports, "teardown")

\* for phase in ['call', 'setup', 'teardown']: user_properties.extend(...)
UserProperties(reports) ==
    PhaseProperties(reports, "call") \o PhaseProperties(reports, "setup")
        \o PhaseProperties(reports, "teardown")

\* ---------------------------------------------------------------- messages
StartedMessage(nodeid) == [event |-> "test_started", test_id |-> nodeid]

FinishedMessage(nodeid, reports) ==
    [event |-> "test_finished", test_id |-> nodeid,
     outcome |-> Outcome(reports), duration |-> TotalDuration(reports),
     details |-> UserProperties(reports)]

\* ---------------------------------------------------------------- delivery
\* json=message: requests encodes the body with json.dumps before anything is
\* sent; a value json.dumps cannot encode raises TypeError.
JsonSerializable(message) ==
    \/ message.event = "test_started"
    \/ \A i \in 1 .. Len(message.details) : message.details[i].json

\* What requests.post(...) followed by response.raise_for_status() can do.
PostResults(message) ==
    IF JsonSerializable(message)
    THEN {"ok", "HTTPError", "ConnectionError"}
    ELSE {"TypeError"}

\* except requests.RequestException: HTTPError and ConnectionError are
\* RequestExceptions and are logged; anything else leaves the hook.
Propagates(result) == result \notin {"ok", "HTTPError", "ConnectionError"}

\* ------------------------------------------------------------ hook history
HookCall(hook, nodeid, report, attempt, raised) ==
    [hook |-> hook, nodeid |-> nodeid, report |-> report,
     attempt |-> attempt, raised |-> raised]

\* The runner calls the runtest hooks one at a time, after pytest_sessionstart
\* returned normally.
CanCall == session = "running" /\ in_flight = <<>> /\ Len(hooks) < MaxCalls

\* ------------------------------------------------------------------- hooks
\* ----------------------------------------------------------- start-up hooks
CommandLines == [enable_sequencer_reporting : BOOLEAN, list_options : BOOLEAN]

Init ==
    /\ session = "loaded"
    /\ sequencer_reporting_enabled = FALSE
    /\ test_reports = EmptyDict
    /\ sent = <<>>
    /\ hooks = <<>>
    /\ config \in CommandLines
    /\ custom_options = <<>>
    /\ parser_options = <<>>
    /\ stdout = <<>>
    /\ returncode = <<>>
    /\ in_flight = <<>>

\* One entry of custom_options; the default is written as Python prints it.
Option(name, default, help) == [name |-> name, default |-> default, help |-> help]

\* The three calls of add_custom_option made by pytest_addoption.
PluginOptions ==
    << Option("--enable-sequencer-reporting", "False",
              "Enable notifications to the test sequencer GUI."),
       Option("--list-options", "False",
              "List all pytest addoptions with their default values"),
       Option("--sequencer-api", "http://localhost:8765/", "API URL for sequencer") >>

\* custom_options.append({"name": args[0], "default": ..., "help": ...})
AddCustomOption(options, option) == Append(options, option)

RECURSIVE AddAll(_, _)
AddAll(options, new) ==
    IF new = <<>> THEN options
    ELSE AddAll(AddCustomOption(options, Head(new)), Tail(new))

pytest_addoption ==
    /\ session = "loaded"
    /\ session' = "options_added"
    /\ parser_options' = parser_options \o PluginOptions
    /\ custom_options' = AddAll(custom_options, PluginOptions)
    /\ UNCHANGED <<sequencer_reporting_enabled, test_reports, sent, hooks, config, stdout,
                   returncode, in_flight>>

pytest_configure ==
    /\ session = "options_added"
    /\ session' = "configured"
    /\ sequencer_reporting_enabled' = config.enable_sequencer_reporting
    /\ UNCHANGED <<test_reports, sent, hooks, startup, in_flight>>

\* Variant of FilteredOptions that keeps every option.
FilteredOptions_keepsAll(options) == options

\* [option for option in custom_options if option["name"] != "--list-options"]
FilteredOptions(options) ==
    LET Keep(option) == option.name # "--list-options"
    IN SelectSeq(options, Keep)

\* pytest.exit(..., returncode=0) ends the session before collection: no
\* runtest hook is called afterwards.
pytest_sessionstart ==
    /\ session = "configured"
    /\ IF config.list_options
       THEN /\ stdout' = Append(stdout, FilteredOptions(custom_options))
            /\ returncode' = <<0>>
            /\ session' = "exited"
       ELSE /\ session' = "running"
            /\ UNCHANGED <<stdout, returncode>>
    /\ UNCHANGED <<sequencer_reporting_enabled, test_reports, sent, hooks, config,
                   custom_options, parser_options, in_flight>>

\* ----------------------------------------------------------- runtest hooks

\* Variant of LogstartReturnsEarly that does not test the enable flag.
LogstartReturnsEarly_ignoresFlag(nodeid) == nodeid = ""

\* Variant of LogstartReturnsEarly with the enable flag inverted.
LogstartReturnsEarly_invertedFlag(nodeid) ==
    nodeid = "" \/ sequencer_reporting_enabled

\* if not nodeid or not sequencer_reporting_enabled: return
LogstartReturnsEarly(nodeid) ==
    nodeid = "" \/ ~sequencer_reporting_enabled

pytest_runtest_logstart(nodeid, result) ==
    /\ CanCall
    /\ IF LogstartReturnsEarly(nodeid)
       THEN /\ result = "none"
            /\ sent' = sent
            /\ hooks' = Append(hooks, HookCall("pytest_runtest_logstart", nodeid, <<>>, <<>>, FALSE))
       ELSE LET message == StartedMessage(nodeid)
                attempt == [message |-> message, result |-> result]
            IN /\ result \in PostResults(message)
               /\ sent' = Append(sent, attempt)
               /\ hooks' = Append(hooks, HookCall("pytest_runtest_logstart", nodeid, <<>>,
                                                  <<attempt>>, Propagates(result)))
    /\ UNCHANGED <<session, sequencer_reporting_enabled, test_reports, startup, in_flight>>

\* if nodeid not in test_reports: test_reports[nodeid] = {}
\* test_reports[nodeid][report.when] = report
StoreReport(buffer, report) ==
    LET entry == IF report.nodeid \in DOMAIN buffer THEN buffer[report.nodeid] ELSE EmptyDict
    IN SetItem(buffer, report.nodeid, SetItem(entry, report.when, report))

\* Variant of CleanUp that removes the entry only after a successful delivery
\* (del inside the try block).
CleanUp_onlyOnSuccess(buffer, nodeid, result) ==
    IF result = "ok" THEN DelItem(buffer, nodeid) ELSE buffer

\* Variant of CleanUp that empties the whole buffer (test_reports.clear()).
CleanUp_clearAll(buffer, nodeid, result) == EmptyDict

\* Variant of CleanUp that removes the teardown report and keeps the entry.
CleanUp_popTeardown(buffer, nodeid, result) ==
    SetItem(buffer, nodeid, DelItem(buffer[nodeid], "teardown"))

\* Variant of CleanUp that empties the entry and keeps its key.
CleanUp_emptiesEntry(buffer, nodeid, result) == SetItem(buffer, nodeid, EmptyDict)

\* Variant of CleanUp that never removes the entry.
CleanUp_keep(buffer, nodeid, result) == buffer

\* finally: del test_reports[nodeid]
CleanUp(buffer, nodeid, result) == DelItem(buffer, nodeid)

\* Variant of IsLastPhase that also takes a setup report for the last one.
IsLastPhase_notCall(report) == report.when # "call"

\* Variant of IsLastPhase that treats every phase report as the last one.
IsLastPhase_always(report) == TRUE

\* if report.when == 'teardown':
IsLastPhase(report) == report.when = "teardown"

\* Variant of LogreportReturnsEarly without the test of the enable flag.
LogreportReturnsEarly_never == FALSE

\* if not sequencer_reporting_enabled: return
LogreportReturnsEarly == ~sequencer_reporting_enabled

pytest_runtest_logreport(report, result) ==
    /\ CanCall
    /\ IF LogreportReturnsEarly
       THEN /\ result = "none"
            /\ UNCHANGED <<test_reports, sent>>
            /\ hooks' = Append(hooks, HookCall("pytest_runtest_logreport", report.nodeid,
                                               <<report>>, <<>>, FALSE))
       ELSE LET nodeid == report.nodeid
                stored == StoreReport(test_reports, report)
            IN IF IsLastPhase(report)
               THEN LET message == FinishedMessage(nodeid, stored[nodeid])
                        attempt == [message |-> message, result |-> result]
                    IN /\ result \in PostResults(message)
                       /\ sent' = Append(sent, attempt)
                       /\ test_reports' = CleanUp(stored, nodeid, result)
                       /\ hooks' = Append(hooks, HookCall("pytest_runtest_logreport", nodeid,
                                                          <<report>>, <<attempt>>,
                                                          Propagates(result)))
               ELSE /\ result = "none"
                    /\ sent' = sent
                    /\ test_reports' = stored
                    /\ hooks' = Append(hooks, HookCall("pytest_runtest_logreport", nodeid,
                                                       <<report>>, <<>>, FALSE))
    /\ UNCHANGED <<session, sequencer_reporting_enabled, startup, in_flight>>

pytest_sessionfinish ==
    /\ CanCall
    /\ hooks' = Append(hooks, HookCall("pytest_sessionfinish", "", <<>>, <<>>, FALSE))
    /\ UNCHANGED <<session, sequencer_reporting_enabled, test_reports, sent, startup,
                   in_flight>>

\* ----------------------------------------------------------- specification
AllResults == {"none", "ok", "HTTPError", "ConnectionError", "TypeError"}

\* Reports the runner passes in the dispatcher specification: every test id,
\* phase and duration. How the outcome, wasxfail and user_properties of the
\* reports enter the message is examined under SpecTeardown.
RunnerReports ==
    ReportsOf(NodeIds, Phases, {"passed"}, {NoWasxfail}, Durations, {<<>>})

Next ==
    \/ pytest_addoption
    \/ pytest_configure
    \/ pytest_sessionstart
    \/ \E nodeid \in NodeIds \cup {""}, result \in AllResults :
          pytest_runtest_logstart(nodeid, result)
    \/ \E report \in RunnerReports, result \in AllResults :
          pytest_runtest_logreport(report, result)
    \/ pytest_sessionfinish

Spec == Init /\ [][Next]_vars

\* ------------------------------------------- teardown-time specification
\* The hook applied to a teardown report of one test whose setup and call
\* reports (each present or not, with every outcome, wasxfail and property
\* value) were buffered by earlier calls of the hook, in either order.
TestId == "t.py::a"

EarlierReports(when) ==
    {<<>>} \cup {<<r>> : r \in ReportsOf({TestId}, {when}, AllOutcomes, AllWasxfail,
                                          Durations, AllProperties)}

TeardownReports ==
    ReportsOf({TestId}, {"teardown"}, AllOutcomes, AllWasxfail, Durations, AllProperties)

RECURSIVE Replay(_, _)
Replay(buffer, reports) ==
    IF reports = <<>> THEN buffer
    ELSE Replay(StoreReport(buffer, Head(reports)), Tail(reports))

InitTeardown ==
    \E s \in EarlierReports("setup"), c \in EarlierReports("call") :
      \E earlier \in {s \o c, c \o s} :
        /\ session = "running"
        /\ sequencer_reporting_enabled = TRUE
        /\ config = [enable_sequencer_reporting |-> TRUE, list_options |-> FALSE]
        /\ custom_options = PluginOptions
        /\ parser_options = PluginOptions
        /\ stdout = <<>>
        /\ returncode = <<>>
        /\ in_flight = <<>>
        /\ test_reports = Replay(EmptyDict, earlier)
        /\ sent = <<>>
        /\ hooks = [i \in 1 .. Len(earlier) |->
                       HookCall("pytest_runtest_logreport", TestId, <<earlier[i]>>, <<>>, FALSE)]

NextTeardown ==
    /\ sent = <<>>
    /\ \E report \in TeardownReports, result \in AllResults :
          pytest_runtest_logreport(report, result)

SpecTeardown == InitTeardown /\ [][NextTeardown]_vars

\* ----------------------------------------------- blocking-call specification
\* The hooks that deliver a message, in two steps: up to the call of
\* requests.post, in which the hook blocks, and from the return (or the
\* exception) of that call to the return of the hook. The runner calls the
\* hooks synchronously, so no other hook starts in between (CanCall).
Posting(hook, nodeid, report, message) ==
    [hook |-> hook, nodeid |-> nodeid, report |-> report, message |-> message]

\* Variant of BufferDuringPost with the entry deleted before the message is
\* posted.
BufferDuringPost_evictsFirst(stored, nodeid) == DelItem(stored, nodeid)

\* test_reports between the construction of the message and the finally
\* clause: the entry is still there while requests.post runs.
BufferDuringPost(stored, nodeid) == stored

logstart_posts(nodeid) ==
    /\ CanCall
    /\ ~LogstartReturnsEarly(nodeid)
    /\ in_flight' = <<Posting("pytest_runtest_logstart", nodeid, <<>>, StartedMessage(nodeid))>>
    /\ UNCHANGED <<session, sequencer_reporting_enabled, test_reports, sent, hooks, startup>>

logreport_posts(report) ==
    /\ CanCall
    /\ ~LogreportReturnsEarly
    /\ IsLastPhase(report)
    /\ LET stored == StoreReport(test_reports, report)
       IN /\ test_reports' = BufferDuringPost(stored, report.nodeid)
          /\ in_flight' = <<Posting("pytest_runtest_logreport", report.nodeid, <<report>>,
                                    FinishedMessage(report.nodeid, stored[report.nodeid]))>>
    /\ UNCHANGED <<session, sequencer_reporting_enabled, sent, hooks, startup>>

post_returns(result) ==
    /\ in_flight # <<>>
    /\ LET posting == in_flight[1]
           attempt == [message |-> posting.message, result |-> result]
       IN /\ result \in PostResults(posting.message)
          /\ sent' = Append(sent, attempt)
          /\ test_reports' = IF posting.hook = "pytest_runtest_logreport"
                             THEN CleanUp(test_reports, posting.nodeid, result)
                             ELSE test_reports
          /\ hooks' = Append(hooks, HookCall(posting.hook, posting.nodeid, posting.report,
                                             <<attempt>>, Propagates(result)))
    /\ in_flight' = <<>>
    /\ UNCHANGED <<session, sequencer_reporting_enabled, startup>>

InitBlocking ==
    /\ session = "running"
    /\ config \in {c \in CommandLines : ~c.list_options}
    /\ sequencer_reporting_enabled = config.enable_sequencer_reporting
    /\ custom_options = PluginOptions
    /\ parser_options = PluginOptions
    /\ stdout = <<>>
    /\ returncode = <<>>
    /\ test_reports = EmptyDict
    /\ sent = <<>>
    /\ hooks = <<>>
    /\ in_flight = <<>>

NextBlocking ==
    \/ \E nodeid \in NodeIds \cup {""} : pytest_runtest_logstart(nodeid, "none")
    \/ \E nodeid \in NodeIds : logstart_posts(nodeid)
    \/ \E report \in RunnerReports : pytest_runtest_logreport(report, "none")
    \/ \E report \in RunnerReports : logreport_posts(report)
    \/ \E result \in AllResults : post_returns(result)
    \/ pytest_sessionfinish

SpecBlocking == InitBlocking /\ [][NextBlocking]_vars

\* ------------------------------------------------- reading the hook history
IsReportCall(i) == hooks[i].hook = "pytest_runtest_logreport"

ReportAt(i) == hooks[i].report[1]

IsTeardownCall(i) == IsReportCall(i) /\ ReportAt(i).when = "teardown"

\* Calls of pytest_runtest_logreport that made a delivery attempt.
FinishedCalls == {i \in DOMAIN hooks : IsReportCall(i) /\ hooks[i].attempt # <<>>}

MessageAt(i) == hooks[i].attempt[1].message

ResultAt(i) == hooks[i].attempt[1].result

Max(S) == CHOOSE x \in S : \A y \in S : y <= x

\* The last call before call i that was given a teardown report of the same
\* test id (0 when there is none).
PreviousTeardown(i) ==
    Max({0} \cup {j \in 1 .. (i - 1) : IsTeardownCall(j) /\ hooks[j].nodeid = hooks[i].nodeid})

ArrivedAt(i, when) ==
    {j \in (PreviousTeardown(i) + 1) .. i :
        IsReportCall(j) /\ hooks[j].nodeid = hooks[i].nodeid /\ ReportAt(j).when = when}

\* The phase reports given to the hook for the test id of call i since that
\* id's previous teardown report, the latest one of each phase.
Arrived(i) ==
    [when \in {w \in Phases : ArrivedAt(i, w) # {}} |-> ReportAt(Max(ArrivedAt(i, when)))]

FinishedSent(nodeid) ==
    {k \in DOMAIN sent : sent[k].message.event = "test_finished"
                         /\ sent[k].message.test_id = nodeid}

TeardownsGiven(nodeid) ==
    {i \in DOMAIN hooks : IsTeardownCall(i) /\ hooks[i].nodeid = nodeid}

\* A report is marked expected-failure when pytest has set its wasxfail
\* attribute.
Marked(report) == report.wasxfail # NoWasxfail

\* Rule 1 of the reconciler: a setup or teardown failure that is not an
\* expected failure.
UnexpectedFailure(reports, when) ==
    /\ when \in DOMAIN reports
    /\ reports[when].outcome = "failed"
    /\ ~Marked(reports[when])

Rule1(reports) ==
    UnexpectedFailure(reports, "setup") \/ UnexpectedFailure(reports, "teardown")

\* ------------------------------------------------------------------ claims

\* C1: with reporting enabled, once pytest_runtest_logreport has processed a
\* teardown report for a test id, test_reports has no entry for that id,
\* whatever the delivery attempt did.
TeardownEvictsEntry ==
    (sequencer_reporting_enabled /\ hooks # <<>> /\ IsTeardownCall(Len(hooks)))
        => hooks[Len(hooks)].nodeid \notin DOMAIN test_reports

TeardownEvictsEntry_witness ==
    /\ sequencer_reporting_enabled
    /\ Len(hooks) >= 2
    /\ IsTeardownCall(Len(hooks))
    /\ ResultAt(Len(hooks)) = "ConnectionError"
    /\ IsReportCall(Len(hooks) - 1)
    /\ hooks[Len(hooks) - 1].nodeid = hooks[Len(hooks)].nodeid
    /\ ReportAt(Len(hooks) - 1).when = "setup"
    /\ hooks[Len(hooks)].nodeid \notin DOMAIN test_reports

\* C2: while reporting is disabled no delivery attempt is made, whatever
\* hooks are called.
DisabledNeverPosts ==
    ~sequencer_reporting_enabled => sent = <<>>

DisabledNeverPosts_witness ==
    /\ session = "running"
    /\ ~sequencer_reporting_enabled
    /\ \E i, j, k \in DOMAIN hooks :
          /\ hooks[i].hook = "pytest_runtest_logstart" /\ hooks[i].nodeid # ""
          /\ IsTeardownCall(j)
          /\ hooks[k].hook = "pytest_sessionfinish"
    /\ sent = <<>>

\* C3 (as stated): at most one test_finished message is ever sent for any one
\* test id.
AtMostOneFinishedPerTestId ==
    \A nodeid \in NodeIds : Cardinality(FinishedSent(nodeid)) <= 1

\* C3 (amended): for every test id there is exactly one test_finished message
\* per teardown report given to the hook for that id, so never more messages
\* than teardown reports.
OneFinishedPerTeardown ==
    sequencer_reporting_enabled =>
        \A nodeid \in NodeIds :
            Cardinality(FinishedSent(nodeid)) = Cardinality(TeardownsGiven(nodeid))

OneFinishedPerTeardown_witness ==
    /\ sequencer_reporting_enabled
    /\ \E nodeid \in NodeIds :
          /\ Cardinality(FinishedSent(nodeid)) = 2
          /\ Cardinality(TeardownsGiven(nodeid)) = 2
          /\ \E i \in DOMAIN hooks :
                IsReportCall(i) /\ ~IsTeardownCall(i) /\ hooks[i].nodeid = nodeid

\* C4: no call of pytest_runtest_logstart or pytest_runtest_logreport raises
\* to the runner, however the delivery fails.
NoHookRaises ==
    \A i \in DOMAIN hooks : ~hooks[i].raised

\* C5: the outcome is 'error' whenever the setup report or the teardown
\* report failed without being marked expected-failure, whatever the call
\* report is.
UnexpectedFailureIsError ==
    \A i \in FinishedCalls :
        Rule1(Arrived(i)) => MessageAt(i).outcome = "error"

UnexpectedFailureIsError_witness ==
    \E i \in FinishedCalls :
        /\ UnexpectedFailure(Arrived(i), "setup")
        /\ ~UnexpectedFailure(Arrived(i), "teardown")
        /\ "call" \in DOMAIN Arrived(i)
        /\ Arrived(i)["call"].outcome = "passed"
        /\ Marked(Arrived(i)["call"])
        /\ MessageAt(i).outcome = "error"

\* C6: when rule 1 does not apply and there is a call report, a call report
\* marked expected-failure gives 'xpassed' if it passed and 'xfailed'
\* otherwise, and an unmarked call report gives its own result.
CallReportDecides ==
    \A i \in FinishedCalls :
        (~Rule1(Arrived(i)) /\ "call" \in DOMAIN Arrived(i)) =>
            LET call_report == Arrived(i)["call"]
            IN MessageAt(i).outcome =
                  IF Marked(call_report)
                  THEN IF call_report.outcome = "passed" THEN "xpassed" ELSE "xfailed"
                  ELSE call_report.outcome

\* C7: when rule 1 does not apply and there is no call report, the outcome is
\* 'skipped' if a setup report with result 'skipped' is present and 'error'
\* in every other case.
NoCallSkippedOrError ==
    \A i \in FinishedCalls :
        (~Rule1(Arrived(i)) /\ "call" \notin DOMAIN Arrived(i)) =>
            MessageAt(i).outcome =
                IF "setup" \in DOMAIN Arrived(i) /\ Arrived(i)["setup"].outcome = "skipped"
                THEN "skipped"
                ELSE "error"

\* C8: reconciliation is total and its outcome is one of the six outcome
\* literals or the unchanged result of a call report whose result is none of
\* passed, failed, skipped: every teardown report given to the hook produces
\* a message with such an outcome.
SixOutcomes == {"passed", "failed", "skipped", "error", "xfailed", "xpassed"}

OutcomeIsLiteralOrPassThrough ==
    sequencer_reporting_enabled =>
        \A i \in DOMAIN hooks :
            IsTeardownCall(i) =>
                /\ i \in FinishedCalls
                /\ \/ MessageAt(i).outcome \in SixOutcomes
                   \/ /\ "call" \in DOMAIN Arrived(i)
                      /\ Arrived(i)["call"].outcome \notin {"passed", "failed", "skipped"}
                      /\ MessageAt(i).outcome = Arrived(i)["call"].outcome

OutcomeIsLiteralOrPassThrough_witness ==
    \E i \in FinishedCalls :
        /\ "call" \in DOMAIN Arrived(i)
        /\ "setup" \notin DOMAIN Arrived(i)
        /\ Arrived(i)["call"].outcome = "rerun"
        /\ MessageAt(i).outcome = "rerun"

\* C9: the duration of a test_finished message is the sum of the durations
\* of the phase reports stored for the test id: the latest report of each
\* phase that arrived, nothing for a phase that did not, the teardown report
\* included.
LatestDuration(i, when) ==
    IF ArrivedAt(i, when) = {} THEN 0 ELSE ReportAt(Max(ArrivedAt(i, when))).duration

FinishedFromOwnReports ==
    \A i \in FinishedCalls :
        MessageAt(i) = FinishedMessage(hooks[i].nodeid, Arrived(i))

FinishedFromOwnReports_witness ==
    \E i, j, k \in DOMAIN hooks :
        /\ i < j /\ j < k
        /\ i \in FinishedCalls /\ k \in FinishedCalls
        /\ hooks[i].nodeid = hooks[k].nodeid
        /\ IsReportCall(j) /\ ~IsTeardownCall(j)
        /\ hooks[j].nodeid # hooks[k].nodeid
        /\ hooks[j].nodeid \in DOMAIN test_reports
        /\ MessageAt(k).duration = ReportAt(k).duration

\* ------------------------------------------------------ the step just taken
\* The step is a call of the named hook (the call is the last one in hooks').
Called(hook) ==
    /\ Len(hooks') = Len(hooks) + 1
    /\ hooks'[Len(hooks')].hook = hook

Range(seq) == {seq[i] : i \in DOMAIN seq}

\* C11: with reporting enabled, a call of pytest_runtest_logstart with a test
\* id makes exactly one delivery attempt, of the message {event:
\* test_started, test_id: that id}, and leaves test_reports unchanged.
LogstartSendsStarted ==
    [][\A nodeid \in NodeIds :
          (/\ sequencer_reporting_enabled
           /\ Called("pytest_runtest_logstart")
           /\ hooks'[Len(hooks')].nodeid = nodeid)
          => /\ Len(sent') = Len(sent) + 1
             /\ SubSeq(sent', 1, Len(sent)) = sent
             /\ sent'[Len(sent')].message = [event |-> "test_started", test_id |-> nodeid]
             /\ test_reports' = test_reports]_vars

LogstartSendsStarted_witness ==
    /\ sequencer_reporting_enabled
    /\ Len(hooks) >= 2
    /\ hooks[Len(hooks)].hook = "pytest_runtest_logstart"
    /\ hooks[Len(hooks)].nodeid \in NodeIds
    /\ hooks[Len(hooks)].nodeid \notin DOMAIN test_reports
    /\ test_reports # EmptyDict
    /\ sent[Len(sent)] = [message |-> [event |-> "test_started",
                                       test_id |-> hooks[Len(hooks)].nodeid],
                          result |-> "HTTPError"]

\* C12: an entry leaves test_reports only in a call of
\* pytest_runtest_logreport with a teardown report of its own test id, so a
\* test id that got setup or call reports and no teardown report is still in
\* the buffer; pytest_sessionfinish changes neither the buffer nor what was
\* sent.
NeverTornDown(nodeid) ==
    /\ \E i \in DOMAIN hooks : IsReportCall(i) /\ hooks[i].nodeid = nodeid
    /\ TeardownsGiven(nodeid) = {}

EntryLeavesOnlyOnOwnTeardown ==
    [][/\ \A nodeid \in DOMAIN test_reports :
             nodeid \notin DOMAIN test_reports'
                => /\ Called("pytest_runtest_logreport")
                   /\ hooks'[Len(hooks')].nodeid = nodeid
                   /\ hooks'[Len(hooks')].report[1].when = "teardown"
       /\ Called("pytest_sessionfinish") => (test_reports' = test_reports /\ sent' = sent)
       /\ \A nodeid \in NodeIds :
             (sequencer_reporting_enabled /\ NeverTornDown(nodeid))'
                => nodeid \in DOMAIN test_reports']_vars

EntryLeavesOnlyOnOwnTeardown_witness ==
    \E nodeid \in NodeIds, i, j, k \in DOMAIN hooks :
        /\ sequencer_reporting_enabled
        /\ i < j /\ j < k
        /\ IsReportCall(i) /\ hooks[i].nodeid = nodeid
        /\ IsTeardownCall(j) /\ hooks[j].nodeid # nodeid
        /\ hooks[k].hook = "pytest_sessionfinish"
        /\ NeverTornDown(nodeid)
        /\ nodeid \in DOMAIN test_reports

\* C13: when the list-options flag is set, pytest_sessionstart ends the
\* session with exit code 0 before any runtest hook is called (so nothing is
\* sent), and what it printed is the list of the registered options other
\* than --list-options, each with name, default and help.
SessionStarted == session \in {"running", "exited"}

ListOptionsExitsBeforeTests ==
    (config.list_options /\ SessionStarted)
        => /\ session = "exited"
           /\ returncode = <<0>>
           /\ hooks = <<>>
           /\ sent = <<>>
           /\ Len(stdout) = 1
           /\ Len(stdout[1]) = Len(parser_options) - 1
           /\ \A option \in Range(parser_options) :
                 option.name # "--list-options" => option \in Range(stdout[1])
           /\ \A option \in Range(stdout[1]) :
                 /\ option \in Range(parser_options)
                 /\ option.name # "--list-options"
                 /\ DOMAIN option = {"name", "default", "help"}

ListOptionsExitsBeforeTests_witness ==
    /\ config.list_options
    /\ config.enable_sequencer_reporting
    /\ session = "exited"
    /\ Len(stdout) = 1
    /\ Len(stdout[1]) = 2
    /\ stdout[1][1].name = "--enable-sequencer-reporting"
    /\ stdout[1][2].name = "--sequencer-api"

\* C14: the details of a test_finished message are the annotations of the
\* call report, then those of the setup report, then those of the teardown
\* report, each list in its own order and nothing for an absent phase, in
\* whatever order the reports arrived.
LatestProperties(i, when) ==
    IF ArrivedAt(i, when) = {} THEN <<>>
    ELSE ReportAt(Max(ArrivedAt(i, when))).user_properties

DetailsInPhaseOrder ==
    \A i \in FinishedCalls :
        MessageAt(i).details =
            LatestProperties(i, "call") \o LatestProperties(i, "setup")
                \o LatestProperties(i, "teardown")

DetailsInPhaseOrder_witness ==
    \E i \in FinishedCalls :
        /\ ArrivedAt(i, "call") # {} /\ ArrivedAt(i, "setup") # {}
        /\ Max(ArrivedAt(i, "call")) < Max(ArrivedAt(i, "setup"))
        /\ MessageAt(i).details =
              << Annotation("obj", FALSE), Annotation("k1", TRUE), Annotation("k2", TRUE),
                 Annotation("obj", FALSE) >>
        /\ LatestProperties(i, "setup") = <<Annotation("k1", TRUE), Annotation("k2", TRUE)>>

\* C15: with reporting enabled, a call of pytest_runtest_logreport makes one
\* delivery attempt, of a test_finished message, when its report is a
\* teardown report and none otherwise, so there are as many test_finished
\* attempts as teardown reports.
AllFinishedSent == {k \in DOMAIN sent : sent[k].message.event = "test_finished"}

AllTeardownsGiven == {i \in DOMAIN hooks : IsTeardownCall(i)}

OneAttemptPerTeardownReport ==
    [][(sequencer_reporting_enabled /\ Called("pytest_runtest_logreport"))
          => /\ IF hooks'[Len(hooks')].report[1].when = "teardown"
                THEN /\ Len(sent') = Len(sent) + 1
                     /\ SubSeq(sent', 1, Len(sent)) = sent
                     /\ sent'[Len(sent')].message.event = "test_finished"
                ELSE sent' = sent
             /\ (Cardinality(AllFinishedSent) = Cardinality(AllTeardownsGiven))']_vars

OneAttemptPerTeardownReport_witness ==
    /\ sequencer_reporting_enabled
    /\ Cardinality(AllTeardownsGiven) = 2
    /\ Cardinality(AllFinishedSent) = 2
    /\ \E i \in DOMAIN hooks : IsReportCall(i) /\ ~IsTeardownCall(i)
    /\ \A k \in DOMAIN sent : sent[k].result # "ok"

\* C16: a call report whose wasxfail attribute is the empty string (xfail
\* mark without reason) is treated like one whose wasxfail is a non-empty
\* reason: the outcome is the one the same reports give with a reason.
EmptyReasonCountsAsMarked ==
    \A i \in FinishedCalls :
        ("call" \in DOMAIN Arrived(i) /\ Arrived(i)["call"].wasxfail = <<"">>)
            => MessageAt(i).outcome =
                  Outcome([Arrived(i) EXCEPT !["call"].wasxfail = <<"reason">>])

\* C17: while no hook is executing, every entry of test_reports holds a setup
\* report, a call report or both, and nothing else: no teardown report and
\* no empty entry.
EntriesHoldSetupAndCallOnly ==
    in_flight = <<>> =>
        \A nodeid \in DOMAIN test_reports :
            /\ DOMAIN test_reports[nodeid] # {}
            /\ DOMAIN test_reports[nodeid] \subseteq {"setup", "call"}

EntriesHoldSetupAndCallOnly_witness ==
    /\ in_flight = <<>>
    /\ sequencer_reporting_enabled
    /\ \E i \in DOMAIN hooks : IsTeardownCall(i) /\ ResultAt(i) = "HTTPError"
    /\ \E nodeid \in DOMAIN test_reports :
          DOMAIN test_reports[nodeid] = {"setup", "call"}

\* C18: when the runner gives all reports of one test, ending with its
\* teardown report, before any report of another test, test_reports never
\* holds more than one entry and is empty after each teardown report.
OneTestAtATime ==
    \A i, j \in DOMAIN hooks :
        (i < j /\ IsReportCall(i) /\ IsReportCall(j) /\ hooks[i].nodeid # hooks[j].nodeid)
            => \E k \in i .. (j - 1) : IsTeardownCall(k) /\ hooks[k].nodeid = hooks[i].nodeid

SequentialRunnerOneEntry ==
    OneTestAtATime =>
        /\ Cardinality(DOMAIN test_reports) <= 1
        /\ (hooks # <<>> /\ IsTeardownCall(Len(hooks))) => test_reports = EmptyDict

SequentialRunnerOneEntry_witness ==
    /\ sequencer_reporting_enabled
    /\ OneTestAtATime
    /\ Len(hooks) = 3
    /\ IsReportCall(1) /\ ~IsTeardownCall(1)
    /\ IsTeardownCall(2) /\ hooks[2].nodeid = hooks[1].nodeid
    /\ IsReportCall(3) /\ ~IsTeardownCall(3) /\ hooks[3].nodeid # hooks[1].nodeid
    /\ DOMAIN test_reports = {hooks[3].nodeid}

\* C19: while reporting is disabled pytest_runtest_logreport leaves
\* test_reports as it is for every report, teardown reports included, so the
\* buffer is empty during the whole run.
DisabledLeavesBufferEmpty ==
    ~sequencer_reporting_enabled => test_reports = EmptyDict

DisabledLeavesBufferEmpty_witness ==
    /\ session = "running"
    /\ ~sequencer_reporting_enabled
    /\ \E i, j \in DOMAIN hooks :
          /\ IsReportCall(i) /\ ~IsTeardownCall(i)
          /\ IsTeardownCall(j)
    /\ test_reports = EmptyDict

\* C20: delivery attempts are made in the order of the hook calls and do not
\* overlap: while the POST of a hook is running the next step is its
\* completion, recorded before the hook returns and before any other hook
\* starts, and the entry of the test id of a test_finished message is in
\* test_reports until that completion.
RECURSIVE AttemptsOf(_)
AttemptsOf(calls) ==
    IF calls = <<>> THEN <<>>
    ELSE Head(calls).attempt \o AttemptsOf(Tail(calls))

HookBlocksOnDelivery ==
    [][/\ in_flight # <<>>
          => /\ in_flight' = <<>>
             /\ Called(in_flight[1].hook)
             /\ hooks'[Len(hooks')].nodeid = in_flight[1].nodeid
             /\ sent' = Append(sent, hooks'[Len(hooks')].attempt[1])
             /\ sent'[Len(sent')].message = in_flight[1].message
       /\ in_flight' # <<>> => (in_flight = <<>> /\ sent' = sent /\ hooks' = hooks)
       /\ \A nodeid \in DOMAIN test_reports :
             nodeid \notin DOMAIN test_reports'
                => /\ in_flight # <<>>
                   /\ in_flight[1].message = FinishedMessage(nodeid, test_reports[nodeid])
                   /\ sent'[Len(sent')].message = in_flight[1].message
       /\ (in_flight' # <<>> /\ in_flight'[1].hook = "pytest_runtest_logreport")
             => in_flight'[1].nodeid \in DOMAIN test_reports'
       /\ sent' = AttemptsOf(hooks')]_vars

HookBlocksOnDelivery_witness ==
    /\ in_flight # <<>>
    /\ in_flight[1].hook = "pytest_runtest_logreport"
    /\ in_flight[1].nodeid \in DOMAIN test_reports
    /\ DOMAIN test_reports[in_flight[1].nodeid] = {"setup", "teardown"}
    /\ Len(sent) = 1
    /\ sent[1].message = StartedMessage(in_flight[1].nodeid)
    /\ sent[1].result = "ConnectionError"

====
